---- MODULE Spec2Model ----
(***************************************************************************)
(* EUDR certificate registry: the lookup endpoint (GET /api/certificates), *)
(* the memoized store connection (dbConnect) and the search page's request *)
(* state (Home).                                                           *)
(*                                                                         *)
(* Text is a sequence of one-character strings, so that trimming,          *)
(* tokenizing, escaping and regular-expression matching are computed the   *)
(* way the code computes them.                                             *)
(***************************************************************************)
EXTENDS Integers, Sequences, FiniteSets, TLC

VARIABLES
    store,      \* the certificates collection, in natural (insertion) order
    storeUp,    \* whether the database is reachable right now
    cached,     \* dbConnect.ts: globalCache.mongoose = { conn, promise }
    promise,    \* settlement state of the promise held in cached.promise
    connects,   \* how many times mongoose.connect has been started
    req,        \* per server request: position, parameters, filter, response
    everConnFail, \* history: some request was answered 500 by a failed connect
    certificates, infoMessage, loading, searchTerm, hasSearched, \* Home state
    fetches,    \* Home: registry requests issued and not yet settled
    activeCertificate, downloading, downloadError, \* Home state of the modal
    downloads,  \* Home: download requests issued and not yet settled
    lastEvent   \* history: the handler or continuation of Home that ran last

vars == <<store, storeUp, cached, promise, connects, req, everConnFail,
          certificates, infoMessage, loading, searchTerm, hasSearched, fetches,
          activeCertificate, downloading, downloadError, downloads, lastEvent>>

serverVars == <<store, storeUp, cached, promise, connects, req, everConnFail>>
clientVars == <<certificates, infoMessage, loading, searchTerm, hasSearched, fetches,
                activeCertificate, downloading, downloadError, downloads, lastEvent>>
searchVars == <<certificates, infoMessage, loading, searchTerm, hasSearched, fetches>>
modalVars == <<activeCertificate, downloading, downloadError, downloads>>

-----------------------------------------------------------------------------
(* Bounds *)

\* longest search text enumerated in the free-text search specification
MaxLen == 3
\* number of concurrent GET requests in the connection specification
MaxCallers == 3
\* most registry requests the page may have outstanding before the model stops
\* issuing more (the code has no such limit)
MaxFetches == 2
\* longest text typed into the page's search box
MaxTermLen == 2
\* most download requests the page may have outstanding before the model stops
\* issuing more (the code has no such limit)
MaxDownloads == 2

-----------------------------------------------------------------------------
(* Text *)

\* null / undefined: a value that is no text
Null == <<"null">>

\* the characters texts are built from: a letter in both cases, a regex
\* metacharacter, a blank and a line feed
Alphabet == {"a", "A", ".", " ", "\n"}

\* /\s/ : white space, line terminators included
WhiteSpace == {" ", "\n"}

\* the characters the regex "." does not match
LineTerminators == {"\n"}

\* case folding of the "i" flag
Lower(c) == IF c = "A" THEN "a" ELSE c

RECURSIVE TextsOfLen(_)
TextsOfLen(n) ==
    IF n = 0 THEN {<<>>}
    ELSE {Append(t, c) : t \in TextsOfLen(n - 1), c \in Alphabet}

TextsUpTo(n) == UNION {TextsOfLen(k) : k \in 0..n}

RECURSIVE DropLeadingWs(_)
DropLeadingWs(s) ==
    IF s # <<>> /\ Head(s) \in WhiteSpace THEN DropLeadingWs(Tail(s)) ELSE s

RECURSIVE DropTrailingWs(_)
DropTrailingWs(s) ==
    IF s # <<>> /\ s[Len(s)] \in WhiteSpace
    THEN DropTrailingWs(SubSeq(s, 1, Len(s) - 1))
    ELSE s

\* String.prototype.trim
StrTrim(s) == DropTrailingWs(DropLeadingWs(s))

\* JavaScript truthiness of a string-or-null value
Truthy(v) == v # Null /\ v # <<>>

\* a nullable string of the page's state: None is null, Some(x) the string x
None == <<>>
Some(x) == <<x>>

\* a ?? b
Coalesce(a, b) == IF a # Null THEN a ELSE b

\* value.split(/\s+/): cut at every maximal run of white space; a text that
\* starts (ends) with white space yields a leading (trailing) empty piece
RECURSIVE SplitFrom(_, _, _)
SplitFrom(s, i, cur) ==
    IF i > Len(s) THEN <<cur>>
    ELSE IF s[i] \in WhiteSpace
         THEN IF i > 1 /\ s[i - 1] \in WhiteSpace
              THEN SplitFrom(s, i + 1, cur)
              ELSE <<cur>> \o SplitFrom(s, i + 1, <<>>)
         ELSE SplitFrom(s, i + 1, Append(cur, s[i]))

SplitWs(s) == SplitFrom(s, 1, <<>>)

-----------------------------------------------------------------------------
(* Regular expressions *)

\* the characters escapeRegex puts a backslash before
RegexSpecials == {".", "*", "+", "?", "^", "$", "{", "}", "(", ")", "|", "[", "]", "\\"}

RECURSIVE escapeRegex(_)
escapeRegex(value) ==
    IF value = <<>> THEN <<>>
    ELSE (IF Head(value) \in RegexSpecials
          THEN <<"\\", Head(value)>>
          ELSE <<Head(value)>>) \o escapeRegex(Tail(value))

RECURSIVE JoinWith(_, _)
JoinWith(parts, sep) ==
    IF parts = <<>> THEN <<>>
    ELSE IF Len(parts) = 1 THEN parts[1]
    ELSE parts[1] \o sep \o JoinWith(Tail(parts), sep)

MapSeq(f(_), s) == [i \in 1..Len(s) |-> f(s[i])]

\* buildLooseRegex: the source text of the pattern it compiles (flag "i")
buildLooseRegex(rawValue) ==
    JoinWith(MapSeq(escapeRegex, SplitWs(StrTrim(rawValue))), <<".", "*">>)

\* new RegExp(pattern): the atoms of a pattern text. "\c" is the literal c,
\* "." is any character but a line terminator, a following "*" repeats the
\* atom, every other character is itself. (The other metacharacters never
\* reach the compiler: they are not in Alphabet.)
RECURSIVE Atoms(_)
Atoms(p) ==
    IF p = <<>> THEN <<>>
    ELSE LET esc  == Head(p) = "\\" /\ Len(p) >= 2
             used == IF esc THEN 2 ELSE 1
             atom == IF esc THEN [kind |-> "lit", ch |-> p[2]]
                     ELSE IF Head(p) = "." THEN [kind |-> "any", ch |-> "."]
                     ELSE [kind |-> "lit", ch |-> Head(p)]
             star == Len(p) > used /\ p[used + 1] = "*"
             rest == SubSeq(p, used + (IF star THEN 2 ELSE 1), Len(p))
         IN  <<[kind |-> atom.kind, ch |-> atom.ch, star |-> star]>> \o Atoms(rest)

AtomMatches(atom, c) ==
    IF atom.kind = "any" THEN c \notin LineTerminators
    ELSE Lower(c) = Lower(atom.ch)

\* backtracking match of atoms[i..] against s at position j
RECURSIVE MatchHere(_, _, _, _)
MatchHere(atoms, i, s, j) ==
    IF i > Len(atoms) THEN TRUE
    ELSE IF atoms[i].star
         THEN \/ MatchHere(atoms, i + 1, s, j)
              \/ /\ j <= Len(s)
                 /\ AtomMatches(atoms[i], s[j])
                 /\ MatchHere(atoms, i, s, j + 1)
         ELSE /\ j <= Len(s)
              /\ AtomMatches(atoms[i], s[j])
              /\ MatchHere(atoms, i + 1, s, j + 1)

\* regex.test(s) for an unanchored, case-insensitive pattern
RegexTest(pattern, s) ==
    \E j \in 1..(Len(s) + 1) : MatchHere(Atoms(pattern), 1, s, j)

-----------------------------------------------------------------------------
(* Lookup endpoint: GET /api/certificates *)

\* the text fields of a Certificate document the endpoint reads
SearchFields ==
    {"certificateHolder", "certificateNumber", "complianceBody",
     "countryOfOrigin", "address"}

Cert(number, holder, body, country, address) ==
    [certificateNumber |-> number, certificateHolder |-> holder,
     complianceBody |-> body, countryOfOrigin |-> country, address |-> address]

\* const trim = (value) => value ? value.trim() : null
trim(value) == IF Truthy(value) THEN StrTrim(value) ELSE Null

\* the four query parameters after trimming
Trimmed(params) ==
    [id |-> trim(params.id),
     certificateNumber |-> trim(params.certificateNumber),
     holder |-> trim(params.holder),
     search |-> trim(params.search)]

\* BuildFilter with the free-text clause added even beside an identifier
BuildFilterOrAlways(params) ==
    LET p == Trimmed(params)
        searchTerm0 == Coalesce(p.search, Coalesce(p.holder, Null))
    IN  [certificateNumber |->
             IF Truthy(p.certificateNumber) THEN p.certificateNumber
             ELSE IF Truthy(p.id) THEN p.id
             ELSE Null,
         certificateHolder |->
             IF Truthy(p.holder) THEN buildLooseRegex(p.holder) ELSE Null,
         or |->
             IF Truthy(searchTerm0) THEN buildLooseRegex(searchTerm0) ELSE Null]

\* BuildFilter with the two identifier assignments in the other order
BuildFilterIdWins(params) ==
    LET p == Trimmed(params)
        searchTerm0 == Coalesce(p.search, Coalesce(p.holder, Null))
    IN  [certificateNumber |->
             IF Truthy(p.id) THEN p.id
             ELSE IF Truthy(p.certificateNumber) THEN p.certificateNumber
             ELSE Null,
         certificateHolder |->
             IF Truthy(p.holder) THEN buildLooseRegex(p.holder) ELSE Null,
         or |->
             IF Truthy(searchTerm0) /\ ~Truthy(p.id) /\ ~Truthy(p.certificateNumber)
             THEN buildLooseRegex(searchTerm0)
             ELSE Null]

\* the filter object GET builds; $or holds one pattern tried on every field
BuildFilter(params) ==
    LET p == Trimmed(params)
        searchTerm0 == Coalesce(p.search, Coalesce(p.holder, Null))
    IN  [certificateNumber |->
             IF Truthy(p.certificateNumber) THEN p.certificateNumber
             ELSE IF Truthy(p.id) THEN p.id
             ELSE Null,
         certificateHolder |->
             IF Truthy(p.holder) THEN buildLooseRegex(p.holder) ELSE Null,
         or |->
             IF Truthy(searchTerm0) /\ ~Truthy(p.id) /\ ~Truthy(p.certificateNumber)
             THEN buildLooseRegex(searchTerm0)
             ELSE Null]

\* whether a stored document satisfies the filter
FilterMatches(filter, doc) ==
    /\ filter.certificateNumber # Null =>
           doc.certificateNumber = filter.certificateNumber
    /\ filter.certificateHolder # Null =>
           RegexTest(filter.certificateHolder, doc.certificateHolder)
    /\ filter.or # Null =>
           \E f \in SearchFields : RegexTest(filter.or, doc[f])

\* CertificateModel.find(filter) on a collection
Find(coll, filter) == SelectSeq(coll, LAMBDA doc : FilterMatches(filter, doc))

\* const lookupIdentifier = id ?? certificateNumber ?? undefined
LookupIdentifier(params) ==
    LET p == Trimmed(params)
    IN  Coalesce(p.id, Coalesce(p.certificateNumber, Null))

NoResponse ==
    [status |-> 0, kind |-> "none", records |-> <<>>, ident |-> Null, error |-> ""]

\* Respond with the not-found test "lookupIdentifier !== undefined"
RespondNotFoundWhenDefined(params, found) ==
    IF Len(found) = 0
    THEN IF LookupIdentifier(params) # Null
         THEN [status |-> 404, kind |-> "message", records |-> <<>>,
               ident |-> LookupIdentifier(params), error |-> ""]
         ELSE [status |-> 200, kind |-> "array", records |-> <<>>,
               ident |-> Null, error |-> ""]
    ELSE IF Truthy(Trimmed(params).id)
         THEN [status |-> 200, kind |-> "object", records |-> <<found[1]>>,
               ident |-> Null, error |-> ""]
         ELSE [status |-> 200, kind |-> "array", records |-> found,
               ident |-> Null, error |-> ""]

\* Respond with the single-object shape for every identifier lookup
RespondObjectForIdentifier(params, found) ==
    IF Len(found) = 0
    THEN IF Truthy(LookupIdentifier(params))
         THEN [status |-> 404, kind |-> "message", records |-> <<>>,
               ident |-> LookupIdentifier(params), error |-> ""]
         ELSE [status |-> 200, kind |-> "array", records |-> <<>>,
               ident |-> Null, error |-> ""]
    ELSE IF Truthy(LookupIdentifier(params))
         THEN [status |-> 200, kind |-> "object", records |-> <<found[1]>>,
               ident |-> Null, error |-> ""]
         ELSE [status |-> 200, kind |-> "array", records |-> found,
               ident |-> Null, error |-> ""]

\* the response GET shapes from the documents found
Respond(params, found) ==
    IF Len(found) = 0
    THEN IF Truthy(LookupIdentifier(params))
         THEN [status |-> 404, kind |-> "message", records |-> <<>>,
               ident |-> LookupIdentifier(params), error |-> ""]
         ELSE [status |-> 200, kind |-> "array", records |-> <<>>,
               ident |-> Null, error |-> ""]
    ELSE IF Truthy(Trimmed(params).id)
         THEN [status |-> 200, kind |-> "object", records |-> <<found[1]>>,
               ident |-> Null, error |-> ""]
         ELSE [status |-> 200, kind |-> "array", records |-> found,
               ident |-> Null, error |-> ""]

\* ErrorResponse with the instanceof test inverted
ErrorResponseUnknown(thrown) ==
    [status |-> 500, kind |-> "message", records |-> <<>>, ident |-> Null,
     error |-> IF ~thrown.isError THEN thrown.message ELSE "Unknown error"]

\* the catch block: a thrown value becomes the 500 message response
ErrorResponse(thrown) ==
    [status |-> 500, kind |-> "message", records |-> <<>>, ident |-> Null,
     error |-> IF thrown.isError THEN thrown.message ELSE "Unknown error"]

\* what the store driver throws
ConnectError == [isError |-> TRUE, message |-> "connect failed"]
QueryError == [isError |-> TRUE, message |-> "query failed"]

-----------------------------------------------------------------------------
(* Request parameters and store contents the specifications range over *)

\* a query parameter: absent, empty, blank, two identifiers, one padded
ParamVals == {Null, <<>>, <<" ">>, <<"a">>, <<".">>, <<" ", "a">>}

AllParams == [id : ParamVals, certificateNumber : ParamVals,
              holder : ParamVals, search : ParamVals]

NoParams == [id |-> Null, certificateNumber |-> Null, holder |-> Null, search |-> Null]

SearchOnly(text) == [NoParams EXCEPT !.search = text]

CertA == Cert(<<"a">>, <<"A">>, <<"a", ".">>, <<>>, <<"a", "\n", ".">>)
CertDot == Cert(<<".">>, <<".", "a">>, <<"a">>, <<"A">>, <<>>)

\* collections of the lookup specification; certificateNumber is unique
StoreChoices == {<<>>, <<CertA>>, <<CertA, CertDot>>}

\* field values of the one-document collections of the search specification
FieldVals == {<<"a">>, <<".">>, <<"A", "\n", ".">>, <<"a", "a", ".">>}

SearchDocs == {Cert(n, h, b, c, a) : n \in FieldVals, h \in FieldVals,
                                     b \in FieldVals, c \in FieldVals,
                                     a \in FieldVals}

Callers == 1..MaxCallers

-----------------------------------------------------------------------------
(* dbConnect and the GET handler as steps between awaits *)

IdleReq ==
    [pc |-> "idle", params |-> NoParams, resp |-> NoResponse, conn |-> 0,
     thrown |-> "", upAll |-> TRUE, afterFail |-> FALSE]

\* StartsConnect without the check of cached.promise
StartsConnectNoPromiseCheck == cached.conn = 0

\* dbConnect up to its first await: whether mongoose.connect is started
StartsConnect == cached.conn = 0 /\ cached.promise = 0

\* GET is called: the filter is built, dbConnect runs to its first await
GetStart(r, params) ==
    /\ req[r].pc = "idle"
    /\ IF cached.conn # 0
       THEN /\ req' = [req EXCEPT ![r] =
                         [pc |-> "find", params |-> params, resp |-> NoResponse,
                          conn |-> cached.conn, thrown |-> "", upAll |-> storeUp,
                          afterFail |-> everConnFail]]
            /\ UNCHANGED <<cached, promise>>
       ELSE /\ req' = [req EXCEPT ![r] =
                         [pc |-> "awaitPromise", params |-> params,
                          resp |-> NoResponse, conn |-> 0, thrown |-> "",
                          upAll |-> storeUp,
                          afterFail |-> everConnFail]]
            /\ IF StartsConnect
               THEN /\ promise' = Append(promise, "pending")
                    /\ cached' = [cached EXCEPT !.promise = Len(promise) + 1]
               ELSE UNCHANGED <<cached, promise>>
    /\ connects' = Len(promise')
    /\ UNCHANGED <<store, storeUp, everConnFail, clientVars>>

\* mongoose.connect settles: fulfilled if the store is reachable, else rejected
ConnectSettle(k) ==
    /\ promise[k] = "pending"
    /\ promise' = [promise EXCEPT ![k] = IF storeUp THEN "fulfilled" ELSE "rejected"]
    /\ UNCHANGED <<store, storeUp, cached, connects, req, everConnFail, clientVars>>

\* cached.conn = await cached.promise; a rejection is thrown into GET's catch
DbConnectResume(r) ==
    /\ req[r].pc = "awaitPromise"
    /\ cached.promise # 0
    /\ promise[cached.promise] # "pending"
    /\ IF promise[cached.promise] = "fulfilled"
       THEN /\ cached' = [cached EXCEPT !.conn = cached.promise]
            /\ req' = [req EXCEPT ![r].pc = "find", ![r].conn = cached.promise]
            /\ UNCHANGED everConnFail
       ELSE /\ req' = [req EXCEPT ![r].pc = "done",
                                  ![r].thrown = ConnectError.message,
                                  ![r].resp = ErrorResponse(ConnectError)]
            /\ everConnFail' = TRUE
            /\ UNCHANGED cached
    /\ UNCHANGED <<store, storeUp, promise, connects, clientVars>>

\* await CertificateModel.find(filter), then the response is shaped
GetFind(r) ==
    /\ req[r].pc = "find"
    /\ req' = [req EXCEPT ![r].pc = "done",
                          ![r].thrown = IF storeUp THEN "" ELSE QueryError.message,
                          ![r].resp =
                              IF storeUp
                              THEN Respond(req[r].params,
                                           Find(store, BuildFilter(req[r].params)))
                              ELSE ErrorResponse(QueryError)]
    /\ UNCHANGED <<store, storeUp, cached, promise, connects, everConnFail, clientVars>>

\* the response is sent; the slot is free for the next request
GetReturn(r) ==
    /\ req[r].pc = "done"
    /\ req' = [req EXCEPT ![r] = IdleReq]
    /\ UNCHANGED <<store, storeUp, cached, promise, connects, everConnFail, clientVars>>

\* the database becomes unreachable
StoreFail ==
    /\ storeUp
    /\ storeUp' = FALSE
    /\ req' = [r \in Callers |-> [req[r] EXCEPT !.upAll = FALSE]]
    /\ UNCHANGED <<store, cached, promise, connects, everConnFail, clientVars>>

\* the database becomes reachable again
StoreRecover ==
    /\ ~storeUp
    /\ storeUp' = TRUE
    /\ UNCHANGED <<store, cached, promise, connects, req, everConnFail, clientVars>>

\* JSON values a response body can parse to
\* (link: whether the value has a non-empty certificateCanvaLink)
JObject(number) ==
    [t |-> "object", number |-> number, message |-> None, items |-> <<>>, link |-> TRUE]
JObjectNoLink(number) ==
    [t |-> "object", number |-> number, message |-> None, items |-> <<>>, link |-> FALSE]
JMessage(text) ==
    [t |-> "object", number |-> Null, message |-> Some(text), items |-> <<>>, link |-> FALSE]
JArray(items) ==
    [t |-> "array", number |-> Null, message |-> None, items |-> items, link |-> FALSE]
JNull ==
    [t |-> "null", number |-> Null, message |-> None, items |-> <<>>, link |-> FALSE]

\* the record of a handler run: which one, and the body it was given
Event(type, data) == [type |-> type, data |-> data]

\* Home as first rendered
ClientIdle ==
    /\ certificates = <<>>
    /\ infoMessage = None
    /\ loading = FALSE
    /\ searchTerm = <<>>
    /\ hasSearched = FALSE
    /\ fetches = <<>>
    /\ activeCertificate = None
    /\ downloading = FALSE
    /\ downloadError = None
    /\ downloads = <<>>
    /\ lastEvent = Event("mount", JNull)

ServerFresh ==
    /\ cached = [conn |-> 0, promise |-> 0]
    /\ promise = <<>>
    /\ connects = 0
    /\ req = [r \in Callers |-> IdleReq]
    /\ everConnFail = FALSE

\* Lookup specification: one request at a time with every parameter
\* combination, against a store that may go down and come back
InitGet ==
    /\ store \in StoreChoices
    /\ storeUp \in BOOLEAN
    /\ ServerFresh
    /\ ClientIdle

NextGet ==
    \/ \E params \in AllParams : GetStart(1, params)
    \/ \E k \in 1..Len(promise) : ConnectSettle(k)
    \/ DbConnectResume(1)
    \/ GetFind(1)
    \/ GetReturn(1)
    \/ StoreFail
    \/ StoreRecover

SpecGet == InitGet /\ [][NextGet]_vars

\* Connection specification: concurrent parameterless requests
InitConn ==
    /\ store = <<CertA, CertDot>>
    /\ storeUp \in BOOLEAN
    /\ ServerFresh
    /\ ClientIdle

NextConn ==
    \/ \E r \in Callers : GetStart(r, NoParams)
    \/ \E k \in 1..Len(promise) : ConnectSettle(k)
    \/ \E r \in Callers : DbConnectResume(r)
    \/ \E r \in Callers : GetFind(r)
    \/ \E r \in Callers : GetReturn(r)
    \/ StoreFail
    \/ StoreRecover

SpecConn == InitConn /\ [][NextConn]_vars

\* Search specification: free-text searches against a one-document
\* collection on a reachable store
InitSearch ==
    /\ store \in {<<doc>> : doc \in SearchDocs}
    /\ storeUp = TRUE
    /\ ServerFresh
    /\ ClientIdle

NextSearch ==
    \/ \E text \in TextsUpTo(MaxLen) : GetStart(1, SearchOnly(text))
    \/ \E k \in 1..Len(promise) : ConnectSettle(k)
    \/ DbConnectResume(1)
    \/ GetFind(1)
    \/ GetReturn(1)

SpecSearch == InitSearch /\ [][NextSearch]_vars

-----------------------------------------------------------------------------
(* Search page: Home in page.tsx *)

\* typeof value === 'object' && value !== null && 'message' in value &&
\* typeof value.message === 'string'
isApiMessage(value) == value.t \in {"object", "array"} /\ value.message # None

\* typeof value === 'object' && value !== null
isCertificate(value) == value.t \in {"object", "array"}

\* what an array element can be: a record, or a value that is no object
ItemVals == {JObject(<<"a">>), JObject(<<".">>), JObjectNoLink(<<"A">>), JNull}

\* the bodies a registry response can carry
ResponseBodies ==
    {JArray(<<>>)}
    \cup {JArray(<<x>>) : x \in ItemVals}
    \cup {JArray(<<x, y>>) : x \in ItemVals, y \in ItemVals}
    \cup {JObject(<<"a">>), JMessage("Certificate a not found"),
          JMessage("Error fetching data"), JNull}

\* what the search box can hold
SearchInputs == TextsUpTo(MaxTermLen)

\* a submit button that is never disabled
SubmitNeverDisabled == FALSE

\* disabled={loading} on the submit button and on the fetch-all button
SubmitDisabled == loading
FetchAllDisabled == loading

\* normalizeResponse with the record test before the message test
normalizeResponseCertFirst(data) ==
    IF data.t = "array"
    THEN LET filtered == SelectSeq(data.items, isCertificate)
         IN  <<filtered, IF Len(filtered) # 0 THEN None ELSE Some("No certificates found.")>>
    ELSE IF isCertificate(data) THEN <<(<<data>>), None>>
    ELSE IF isApiMessage(data) THEN <<(<<>>), data.message>>
    ELSE <<(<<>>), Some("No certificates found.")>>

\* normalizeResponse without the isCertificate filter on array elements
normalizeResponseNoFilter(data) ==
    IF data.t = "array"
    THEN <<data.items, IF Len(data.items) # 0 THEN None ELSE Some("No certificates found.")>>
    ELSE IF isApiMessage(data) THEN <<(<<>>), data.message>>
    ELSE IF isCertificate(data) THEN <<(<<data>>), None>>
    ELSE <<(<<>>), Some("No certificates found.")>>

\* the state normalizeResponse sets: <<certificates, infoMessage>>
normalizeResponse(data) ==
    IF data.t = "array"
    THEN LET filtered == SelectSeq(data.items, isCertificate)
         IN  <<filtered, IF Len(filtered) # 0 THEN None ELSE Some("No certificates found.")>>
    ELSE IF isApiMessage(data) THEN <<(<<>>), data.message>>
    ELSE IF isCertificate(data) THEN <<(<<data>>), None>>
    ELSE <<(<<>>), Some("No certificates found.")>>

\* handleSearchChange: the user edits the search box
HandleSearchChange(text) ==
    /\ searchTerm' = text
    /\ lastEvent' = Event("change", JNull)
    /\ UNCHANGED <<certificates, infoMessage, loading, hasSearched, fetches,
                   modalVars, serverVars>>

\* fetchAll without setCertificates([])
FetchAllStartKeepsList ==
    /\ ~FetchAllDisabled
    /\ Len(fetches) < MaxFetches
    /\ loading' = TRUE
    /\ infoMessage' = None
    /\ hasSearched' = TRUE
    /\ fetches' = Append(fetches, [kind |-> "all", query |-> <<>>])
    /\ lastEvent' = Event("fetchAll", JNull)
    /\ UNCHANGED <<certificates, searchTerm, modalVars, serverVars>>

\* fetchAll up to its first await (the fetch-all button is clicked)
FetchAllStart ==
    /\ ~FetchAllDisabled
    /\ Len(fetches) < MaxFetches
    /\ loading' = TRUE
    /\ infoMessage' = None
    /\ certificates' = <<>>
    /\ hasSearched' = TRUE
    /\ fetches' = Append(fetches, [kind |-> "all", query |-> <<>>])
    /\ lastEvent' = Event("fetchAll", JNull)
    /\ UNCHANGED <<searchTerm, modalVars, serverVars>>

\* searchCertificates with the blank test on the untrimmed text
SearchStartUntrimmed ==
    /\ ~SubmitDisabled
    /\ Len(fetches) < MaxFetches
    /\ IF searchTerm = <<>>
       THEN /\ infoMessage' = Some("Enter a holder name, certificate number, or location.")
            /\ certificates' = <<>>
            /\ hasSearched' = FALSE
            /\ UNCHANGED <<loading, fetches>>
       ELSE /\ loading' = TRUE
            /\ infoMessage' = None
            /\ certificates' = <<>>
            /\ hasSearched' = TRUE
            /\ fetches' = Append(fetches, [kind |-> "search", query |-> StrTrim(searchTerm)])
    /\ lastEvent' = Event("submit", JNull)
    /\ UNCHANGED <<searchTerm, modalVars, serverVars>>

\* handleSubmit -> searchCertificates up to its first await (the form is
\* submitted; a disabled submit button blocks submission)
SearchStart ==
    /\ ~SubmitDisabled
    /\ Len(fetches) < MaxFetches
    /\ IF StrTrim(searchTerm) = <<>>
       THEN /\ infoMessage' = Some("Enter a holder name, certificate number, or location.")
            /\ certificates' = <<>>
            /\ hasSearched' = FALSE
            /\ UNCHANGED <<loading, fetches>>
       ELSE /\ loading' = TRUE
            /\ infoMessage' = None
            /\ certificates' = <<>>
            /\ hasSearched' = TRUE
            /\ fetches' = Append(fetches, [kind |-> "search", query |-> StrTrim(searchTerm)])
    /\ lastEvent' = Event("submit", JNull)
    /\ UNCHANGED <<searchTerm, modalVars, serverVars>>

RemoveAt(seq, i) == SubSeq(seq, 1, i - 1) \o SubSeq(seq, i + 1, Len(seq))

\* fetch and res.json() resolved: normalizeResponse, then finally
FetchResolve(i, data) ==
    /\ i \in 1..Len(fetches)
    /\ certificates' = normalizeResponse(data)[1]
    /\ infoMessage' = normalizeResponse(data)[2]
    /\ loading' = FALSE
    /\ fetches' = RemoveAt(fetches, i)
    /\ lastEvent' = Event("resolve", data)
    /\ UNCHANGED <<searchTerm, hasSearched, modalVars, serverVars>>

\* fetch or res.json() rejected: the catch block, then finally
FetchReject(i) ==
    /\ i \in 1..Len(fetches)
    /\ infoMessage' = Some(IF fetches[i].kind = "all"
                           THEN "Unable to reach the certificate service right now."
                           ELSE "Unable to search certificates right now.")
    /\ loading' = FALSE
    /\ fetches' = RemoveAt(fetches, i)
    /\ lastEvent' = Event("reject", JNull)
    /\ UNCHANGED <<certificates, searchTerm, hasSearched, modalVars, serverVars>>

\* disabled={downloading || !certificate.certificateCanvaLink} on the
\* download button of the modal
DownloadDisabled ==
    downloading \/ (activeCertificate # None /\ ~activeCertificate[1].link)

\* handleOpenCertificate: "View Certificate" on a card, which only a record
\* with a certificateCanvaLink shows
HandleOpenCertificate(i) ==
    /\ i \in 1..Len(certificates)
    /\ certificates[i].link
    /\ activeCertificate' = Some(certificates[i])
    /\ downloadError' = None
    /\ lastEvent' = Event("open", JNull)
    /\ UNCHANGED <<downloading, downloads, searchVars, serverVars>>

\* handleCloseCertificate (close button, backdrop, Escape), then the effect
\* on activeCertificate, which resets downloading once the modal is closed
HandleCloseCertificate ==
    /\ activeCertificate # None
    /\ activeCertificate' = None
    /\ downloadError' = None
    /\ downloading' = FALSE
    /\ lastEvent' = Event("close", JNull)
    /\ UNCHANGED <<downloads, searchVars, serverVars>>

\* handleDownloadCertificate up to its first await
DownloadStart ==
    /\ activeCertificate # None
    /\ ~DownloadDisabled
    /\ activeCertificate[1].link
    /\ Len(downloads) < MaxDownloads
    /\ downloading' = TRUE
    /\ downloadError' = None
    /\ downloads' = Append(downloads, activeCertificate[1].number)
    /\ lastEvent' = Event("download", JNull)
    /\ UNCHANGED <<activeCertificate, searchVars, serverVars>>

\* the download was fetched and saved: finally
DownloadResolve(i) ==
    /\ i \in 1..Len(downloads)
    /\ downloading' = FALSE
    /\ downloads' = RemoveAt(downloads, i)
    /\ lastEvent' = Event("downloaded", JNull)
    /\ UNCHANGED <<activeCertificate, downloadError, searchVars, serverVars>>

\* fetch rejected or the response was not ok: catch, then finally
DownloadReject(i) ==
    /\ i \in 1..Len(downloads)
    /\ downloadError' = Some("Canva only allows downloads from within their interface. Opening the design in a new tab.")
    /\ downloading' = FALSE
    /\ downloads' = RemoveAt(downloads, i)
    /\ lastEvent' = Event("downloadFailed", JNull)
    /\ UNCHANGED <<activeCertificate, searchVars, serverVars>>

\* Page specification: the user's actions and the settling of requests
InitClient ==
    /\ store = <<>>
    /\ storeUp = TRUE
    /\ ServerFresh
    /\ ClientIdle

NextClient ==
    \/ \E text \in SearchInputs : HandleSearchChange(text)
    \/ FetchAllStart
    \/ SearchStart
    \/ \E i \in 1..MaxFetches, data \in ResponseBodies : FetchResolve(i, data)
    \/ \E i \in 1..MaxFetches : FetchReject(i)

SpecClient == InitClient /\ [][NextClient]_vars

\* Modal specification: the page with the search box left empty, the
\* certificate modal and its download
NextDownload ==
    \/ FetchAllStart
    \/ SearchStart
    \/ \E i \in 1..MaxFetches, data \in ResponseBodies : FetchResolve(i, data)
    \/ \E i \in 1..MaxFetches : FetchReject(i)
    \/ \E i \in 1..2 : HandleOpenCertificate(i)
    \/ HandleCloseCertificate
    \/ DownloadStart
    \/ \E i \in 1..MaxDownloads : DownloadResolve(i)
    \/ \E i \in 1..MaxDownloads : DownloadReject(i)

SpecDownload == InitClient /\ [][NextDownload]_vars

-----------------------------------------------------------------------------
(* Properties of the lookup endpoint *)

\* request r has been answered and the store was read
Answered(r) == req[r].pc = "done" /\ req[r].resp.status # 500

\* the trimmed parameters of request r
P(r) == Trimmed(req[r].params)

\* a non-blank id or certificateNumber was supplied
HasIdentifier(r) == Truthy(P(r).id) \/ Truthy(P(r).certificateNumber)

\* the stored documents whose certificateNumber is ident
WithNumber(ident) == SelectSeq(store, LAMBDA doc : doc.certificateNumber = ident)

\* C1: a request that supplies a non-blank id or certificateNumber which no
\* stored record has as its certificate number is answered with the 404
\* not-found message, whatever the other parameters are.
C1_NotFoundForMissingIdentifier ==
    \A ident \in {P(1).id, P(1).certificateNumber} :
        (Answered(1) /\ Truthy(ident) /\ WithNumber(ident) = <<>>)
            => (req[1].resp.status = 404 /\ req[1].resp.kind = "message")

\* C2: a request with no id and no certificateNumber (absent or blank) whose
\* filter matches no record is answered with an empty array and status 200.
C2_EmptyArrayWithoutIdentifier ==
    (Answered(1) /\ ~HasIdentifier(1)
       /\ \A i \in 1..Len(store) : ~FilterMatches(BuildFilter(req[1].params), store[i]))
        => (req[1].resp.status = 200 /\ req[1].resp.kind = "array"
              /\ req[1].resp.records = <<>>)

C2_Witness ==
    /\ Answered(1)
    /\ ~HasIdentifier(1)
    /\ P(1).id = <<>>
    /\ Truthy(P(1).search)
    /\ store # <<>>
    /\ req[1].resp.kind = "array"
    /\ req[1].resp.records = <<>>

\* field contains the tokens one after the other from position from on, each
\* as a literal substring up to case, anything allowed in between
RECURSIVE ContainsInOrder(_, _, _)
ContainsInOrder(field, tokens, from) ==
    IF tokens = <<>> THEN TRUE
    ELSE LET t == Head(tokens)
         IN  \E i \in from..(Len(field) - Len(t) + 1) :
                 /\ \A k \in 1..Len(t) : Lower(field[i + k - 1]) = Lower(t[k])
                 /\ ContainsInOrder(field, Tail(tokens), i + Len(t))

\* C3: a record is returned for a free-text search exactly when one of its
\* five searched fields contains all white-space-separated tokens of the
\* search text, literally, case-insensitively, in order, with arbitrary
\* characters between consecutive tokens.
C3_SearchMatchesTokensInOrder ==
    (Answered(1) /\ Truthy(P(1).search))
        => \A i \in 1..Len(store) :
               (\E k \in 1..Len(req[1].resp.records) : req[1].resp.records[k] = store[i])
                   <=> \E f \in SearchFields :
                           ContainsInOrder(store[i][f], SplitWs(P(1).search), 1)

\* C4: with a non-blank id or certificateNumber the filter has no $or clause
\* and the response is the same for every value of the search parameter.
C4_IdentifierBeatsSearch ==
    (Answered(1) /\ HasIdentifier(1))
        => /\ BuildFilter(req[1].params).or = Null
           /\ \A s \in ParamVals :
                  LET other == [req[1].params EXCEPT !.search = s]
                  IN  Respond(other, Find(store, BuildFilter(other))) = req[1].resp

C4_Witness ==
    /\ Answered(1)
    /\ Truthy(P(1).id)
    /\ Truthy(P(1).search)
    /\ P(1).search # P(1).id
    /\ req[1].resp.status = 200

\* the identifier the filter ends up with: certificateNumber overwrites id
EffectiveIdentifier(r) ==
    IF Truthy(P(r).certificateNumber) THEN P(r).certificateNumber ELSE P(r).id

\* C5 as stated: with a non-blank id or certificateNumber the records returned
\* are exactly those whose certificateNumber equals the identifier, whatever
\* the holder parameter is.
C5_ExactMatchOnly ==
    (Answered(1) /\ HasIdentifier(1))
        => req[1].resp.records = WithNumber(EffectiveIdentifier(1))

\* C5 amended: the records returned are those whose certificateNumber equals
\* the identifier (certificateNumber when both are supplied) and, when a
\* non-blank holder is supplied, whose certificateHolder also matches the
\* holder's loose pattern.
C5_ExactMatchAndHolder ==
    (Answered(1) /\ HasIdentifier(1))
        => req[1].resp.records =
               SelectSeq(store, LAMBDA doc :
                   /\ doc.certificateNumber = EffectiveIdentifier(1)
                   /\ Truthy(P(1).holder) =>
                          RegexTest(buildLooseRegex(P(1).holder), doc.certificateHolder))

C5_Witness ==
    /\ Answered(1)
    /\ HasIdentifier(1)
    /\ Truthy(P(1).holder)
    /\ WithNumber(EffectiveIdentifier(1)) # <<>>
    /\ req[1].resp.records = <<>>

\* C6: a successful lookup that finds a record answers with a single record
\* object exactly when a non-blank id was supplied, and otherwise with the
\* array of all matching records.
C6_ObjectOnlyForId ==
    (Answered(1) /\ req[1].resp.status = 200 /\ req[1].resp.records # <<>>)
        => /\ req[1].resp.kind = "object" <=> Truthy(P(1).id)
           /\ req[1].resp.kind = "object" => Len(req[1].resp.records) = 1
           /\ req[1].resp.kind # "object" =>
                  /\ req[1].resp.kind = "array"
                  /\ req[1].resp.records = Find(store, BuildFilter(req[1].params))

C6_Witness ==
    /\ Answered(1)
    /\ ~Truthy(P(1).id)
    /\ Truthy(P(1).certificateNumber)
    /\ req[1].resp.kind = "array"
    /\ Len(req[1].resp.records) = 1

\* C7: when connecting or querying fails, the handler answers with status 500
\* and a message object carrying the error's text.
C7_FailureBecomes500 ==
    (req[1].pc = "done" /\ req[1].thrown # "")
        => /\ req[1].resp.status = 500
           /\ req[1].resp.kind = "message"
           /\ req[1].resp.error = req[1].thrown

C7_Witness ==
    /\ req[1].pc = "done"
    /\ req[1].thrown = QueryError.message
    /\ HasIdentifier(1)
    /\ Truthy(P(1).search)

\* C8: after a request was answered 500 because the connection failed, a
\* later request made while the store is reachable is not answered 500.
C8_RecoversAfterConnectFailure ==
    (req[1].pc = "done" /\ req[1].afterFail /\ req[1].upAll)
        => req[1].resp.status # 500

\* C9: mongoose.connect is started at most once, and every dbConnect call
\* that resolved got the one memoized connection.
C9_ConnectOnce ==
    /\ connects <= 1
    /\ \A r \in Callers : req[r].conn # 0 => req[r].conn = cached.conn

C9_Witness ==
    /\ connects = 1
    /\ \E r1, r2 \in Callers :
           /\ r1 # r2
           /\ req[r1].conn = 1
           /\ req[r2].conn = 1
           /\ req[r1].pc = "done"
           /\ req[r2].pc = "find"

-----------------------------------------------------------------------------
(* Properties of the search page *)

\* C10: at most one search or fetch-all request is in flight, and while one
\* is, loading is true and both the submit and the fetch-all control are
\* disabled.
C10_SingleRegistryRequest ==
    /\ Len(fetches) <= 1
    /\ fetches # <<>> => (loading /\ SubmitDisabled /\ FetchAllDisabled)

C10_Witness ==
    /\ Len(fetches) = 1
    /\ fetches[1].kind = "search"
    /\ StrTrim(searchTerm) = <<>>
    /\ loading

\* C11: a download request outstanding keeps the download control disabled,
\* so at most one download request is in flight, whatever the sequence of
\* open, download, close and reopen actions.
C11_SingleDownload ==
    /\ Len(downloads) <= 1
    /\ (downloads # <<>> /\ activeCertificate # None) => DownloadDisabled

\* the text is empty or holds white space only
AllWhiteSpace(text) == \A i \in 1..Len(text) : text[i] \in WhiteSpace

\* C12: submitting a search text that is empty or only white space issues no
\* request: loading stays false, the result list is cleared, hasSearched is
\* false and the prompt message is shown.
C12_BlankSearchIssuesNoRequest ==
    (lastEvent.type = "submit" /\ AllWhiteSpace(searchTerm))
        => /\ fetches = <<>>
           /\ ~loading
           /\ certificates = <<>>
           /\ ~hasSearched
           /\ infoMessage = Some("Enter a holder name, certificate number, or location.")

C12_Witness ==
    /\ lastEvent.type = "submit"
    /\ searchTerm = <<" ", " ">>
    /\ infoMessage = Some("Enter a holder name, certificate number, or location.")

\* the body is an object with a string message (the 404 and 500 responses)
IsMessageBody(data) == data.t = "object" /\ data.message # None

\* C13: every failed search or fetch-all (the request or the parsing of the
\* body rejected, or a 404 / 500 message response) ends with a non-null
\* message, an empty result list and loading false.
C13_FailureShowsMessage ==
    (\/ lastEvent.type = "reject"
     \/ lastEvent.type = "resolve" /\ IsMessageBody(lastEvent.data))
        => /\ infoMessage # None
           /\ certificates = <<>>
           /\ ~loading

C13_Witness ==
    /\ lastEvent.type = "resolve"
    /\ lastEvent.data = JMessage("Error fetching data")
    /\ infoMessage = Some("Error fetching data")
    /\ hasSearched

\* the elements of an array body that are objects
RecordsOf(items) == SelectSeq(items, LAMBDA x : x.t = "object")

C15_NoMessageWithResults ==
    certificates # <<>> => infoMessage = None

C15_Witness ==
    /\ Len(certificates) = 2
    /\ infoMessage = None
    /\ lastEvent.type = "change"
    /\ AllWhiteSpace(searchTerm)

====
